---------------------------- MODULE Spec2Model ----------------------------
(***************************************************************************)
(* Model of lit_gpt/mamba_simple.py (class Mamba): the causal convolution  *)
(* with its persisted buffer, the selective recurrence in its two          *)
(* execution modes (forward over a sequence, step over one token) and the  *)
(* inference cache both modes mutate.                                      *)
(*                                                                         *)
(* Numbers are fixed-point integers counted in units of 1/Unit.  The       *)
(* layer is modelled with batch = 1, d_model = d_inner = dt_rank = 1, so a *)
(* "tensor over time" is a sequence of integers, conv_state is a sequence  *)
(* of d_conv integers and ssm_state a sequence of d_state integers.        *)
(* Records list their fields in one fixed order throughout.                *)
(***************************************************************************)
EXTENDS Integers, Sequences, FiniteSets, TLC

\* ------------------------------------------------------------- bounds
\* one unit of the fixed-point scale (the number 1.0)
Unit == 4
\* longest hidden_states sequence a call is given
MaxLen == 3
\* calls made in one behaviour
MaxCalls == 2
\* layers sharing one inference_params
NumLayers == 2
\* widest convolution explored by the convolution specification
MaxK == 4
\* d_conv of the layer in the layer specification
DConv == 2
\* d_state of the layer
DState == 2

Layers == 1..NumLayers

\* ------------------------------------------------------ fixed-point math
Max(a, b) == IF a >= b THEN a ELSE b

Abs(a) == IF a >= 0 THEN a ELSE -a

\* a * b of two fixed-point numbers
Mul(a, b) == (a * b) \div Unit

\* a function over 1..n as the tuple of its values
AsSeq(f) == f \o <<>>

RECURSIVE SumSeq(_)
SumSeq(s) == IF s = <<>> THEN 0 ELSE Head(s) + SumSeq(Tail(s))

Zeros(n) == AsSeq([i \in 1..n |-> 0])

\* torch.exp: strictly positive, 1 at 0, below 1 on negatives, increasing.
\* A value too small for the scale is the smallest positive number.
Exp(v) ==
    IF v >= 0 THEN Unit + v + (v * v) \div (2 * Unit)
    ELSE Max(1, (Unit * Unit) \div (Unit - v))

\* F.softplus(v) = log(1 + exp(v)) = v + log(1 + exp(-v))
Softplus(v) == IF v >= 0 THEN v + Exp(-v) ELSE Exp(v)

\* torch.sigmoid
Sigmoid(v) == (Unit * Exp(v)) \div (Unit + Exp(v))

\* nn.SiLU: v * sigmoid(v)
Silu(v) == Mul(v, Sigmoid(v))

\* ---------------------------------------------------------- convolution
\* torch.roll(conv_state, shifts=-1, dims=-1)
Roll(s) == IF s = <<>> THEN s ELSE Tail(s) \o <<Head(s)>>

\* sum over the window of conv_state * weight
Dot(a, w) == SumSeq(AsSeq([i \in 1..Len(w) |-> a[i] * w[i]])) \div Unit

\* the conv step with the roll forgotten: x overwrites the last slot
ConvUpdateNoRoll(conv_state, x, w, b) ==
    LET st == [conv_state EXCEPT ![Len(conv_state)] = x]
    IN  [conv_state |-> st, x |-> Silu(Dot(st, w) + b)]

\* Mamba.step, "Conv step" without causal_conv1d_update: roll the buffer,
\* write x in the last slot, weighted sum, bias, activation.
ConvUpdateRef(conv_state, x, w, b) ==
    LET rolled == Roll(conv_state)
        st == [rolled EXCEPT ![Len(rolled)] = x]
    IN  [conv_state |-> st, x |-> Silu(Dot(st, w) + b)]

\* causal_conv1d_update(x, conv_state, weight, bias, activation): the
\* library kernel shifts the buffer in place, appends x and returns the
\* activated window sum.
CausalConv1dUpdate(conv_state, x, w, b) ==
    LET st == AsSeq([i \in 1..Len(conv_state) |->
                  IF i < Len(conv_state) THEN conv_state[i + 1] ELSE x])
    IN  [conv_state |-> st, x |-> Silu(Dot(st, w) + b)]

\* nn.Conv1d(kernel_size=d_conv, groups=d_inner, padding=d_conv - 1):
\* zero padding of d_conv - 1 on both sides, Len(xs) + d_conv - 1 outputs.
Conv1d(xs, w, b) ==
    LET K == Len(w)
        pad == Zeros(K - 1) \o xs \o Zeros(K - 1)
    IN  AsSeq([t \in 1..(Len(xs) + K - 1) |->
            SumSeq(AsSeq([k \in 1..K |-> w[k] * pad[t + k - 1]])) \div Unit + b])

\* forward without causal_conv1d_fn: self.act(self.conv1d(x)[..., :seqlen])
ConvRef(xs, w, b) ==
    LET full == Conv1d(xs, w, b)
    IN  AsSeq([t \in 1..Len(xs) |-> Silu(full[t])])

\* causal_conv1d_fn(x, weight, bias, seq_idx, activation): the library
\* kernel; position t sees the d_conv - 1 positions before it, zero where
\* there is none or where seq_idx says the position is of another segment.
\* seq_idx = <<>> is None.
CausalConv1dFn(xs, w, b, seq_idx) ==
    LET K == Len(w)
        tap(t, k) ==
            LET j == t - (K - k)
            IN  IF j < 1 THEN 0
                ELSE IF seq_idx # <<>> /\ seq_idx[j] # seq_idx[t] THEN 0
                ELSE xs[j]
    IN  AsSeq([t \in 1..Len(xs) |->
            Silu(SumSeq(AsSeq([k \in 1..K |-> w[k] * tap(t, k)])) \div Unit + b)])

\* F.pad(ox, (d_conv - seqlen, 0)): zeros on the left when the amount is
\* positive, truncation on the left when it is negative.
PadLeft(ox, n) ==
    IF n >= 0 THEN Zeros(n) \o ox
    ELSE SubSeq(ox, 1 - n, Len(ox))


\* ----------------------------------------------------------- parameters
\* quantised inverse of Exp on [1, oo): the v with Exp(v) <= x < Exp(v + 1)
Log(x) == CHOOSE v \in 0..x : Exp(v) <= x /\ Exp(v + 1) > x

\* Mamba.__init__, "S4D real initialization": A_log = log(arange(1, d_state + 1))
ALogInit(n) == AsSeq([i \in 1..n |-> Log(i * Unit)])

\* Mamba.__init__: the parameter tensors of a layer of convolution width K
\* and state width n.  A_log and D are initialised as the constructor
\* does; dt_proj.bias is the inverse softplus of a step in [dt_min, dt_max],
\* a negative number; the nn.Linear and nn.Conv1d weights are fixed values,
\* distinct per tap so that the order of the window matters.
InitParams(K, n) ==
    [ in_x   |-> Unit,
      in_z   |-> Unit \div 2 + 1,
      conv_w |-> AsSeq([k \in 1..K |-> k + 1]),
      conv_b |-> 1,
      xp_dt  |-> Unit,
      xp_B   |-> AsSeq([i \in 1..n |-> Unit + i]),
      xp_C   |-> AsSeq([i \in 1..n |-> Unit - i + 1]),
      dtp_w  |-> Unit,
      dt_bias|-> -(2 * Unit),
      A_log  |-> ALogInit(n),
      D      |-> Unit,
      out_w  |-> Unit ]

\* the decay parameter with the minus sign lost
AOfPositive(A_log) == AsSeq([i \in 1..Len(A_log) |-> Exp(A_log[i])])

\* forward and step: A = -torch.exp(self.A_log.float())
AOf(A_log) == AsSeq([i \in 1..Len(A_log) |-> -Exp(A_log[i])])

\* --------------------------------------------------------- recurrence
\* the update with the input gain not scaled by the step: dB = B
SsmUpdateNoDt(ssm_state, x, dt, A, B, C, D) ==
    LET n  == Len(ssm_state)
        dA == AsSeq([i \in 1..n |-> Exp(Mul(dt, A[i]))])
        st == AsSeq([i \in 1..n |-> Mul(ssm_state[i], dA[i]) + Mul(x, B[i])])
    IN  [ ssm_state |-> st,
          dt |-> dt,
          dA |-> dA,
          y  |-> SumSeq(AsSeq([i \in 1..n |-> Mul(st[i], C[i])])) + Mul(D, x) ]

\* Mamba.step, "SSM step" without selective_state_update, after the
\* softplus: discretize A and B with the realized step dt, update the
\* state, read it out through C and add the skip term D * x.
SsmUpdate(ssm_state, x, dt, A, B, C, D) ==
    LET n  == Len(ssm_state)
        dA == AsSeq([i \in 1..n |-> Exp(Mul(dt, A[i]))])
        dB == AsSeq([i \in 1..n |-> Mul(dt, B[i])])
        st == AsSeq([i \in 1..n |-> Mul(ssm_state[i], dA[i]) + Mul(x, dB[i])])
    IN  [ ssm_state |-> st,
          dt |-> dt,
          dA |-> dA,
          y  |-> SumSeq(AsSeq([i \in 1..n |-> Mul(st[i], C[i])])) + Mul(D, x) ]

\* Mamba.step, "SSM step" without selective_state_update: softplus of
\* dt + dt_proj.bias, the update, the gate y * act(z).
SsmStepRef(ssm_state, x, dt, A, B, C, D, z, dt_bias) ==
    LET u == SsmUpdate(ssm_state, x, Softplus(dt + dt_bias), A, B, C, D)
    IN  [ ssm_state |-> u.ssm_state, dt |-> u.dt, dA |-> u.dA,
          y |-> Mul(u.y, Silu(z)), yrec |-> u.y ]

\* selective_state_update(state, x, dt, A, B, C, D, z, dt_bias,
\* dt_softplus=True): the library kernel, by its reference implementation.
SelectiveStateUpdate(ssm_state, x, dt, A, B, C, D, z, dt_bias) ==
    LET n   == Len(ssm_state)
        del == Softplus(dt + dt_bias)
        dA  == AsSeq([i \in 1..n |-> Exp(Mul(del, A[i]))])
        st  == AsSeq([i \in 1..n |-> Mul(ssm_state[i], dA[i]) + Mul(x, Mul(del, B[i]))])
        out == SumSeq(AsSeq([i \in 1..n |-> Mul(st[i], C[i])])) + Mul(D, x)
    IN  [ ssm_state |-> st, dt |-> del, dA |-> dA,
          y |-> Mul(out, Silu(z)), yrec |-> out ]

\* gated_memory_unit.swiglu(gate, value): value * silu(gate)
Swiglu(z, y) == Mul(Silu(z), y)

\* The recurrence of one scan over time from the state init:
\*   state_t = state_{t-1} * exp(dt_t * A) + x_t * dt_t * B_t
\*   y_t     = sum_n state_t * C_t + D * x_t
\* with the carried state replaced by zero at every position in resets.
\* Returns the per-position outputs, states, realized steps and decay
\* factors.
RECURSIVE ScanFrom(_, _, _, _, _, _, _, _, _)
ScanFrom(t, state, xs, dts, A, Bs, Cs, D, resets) ==
    IF t > Len(xs) THEN [dA |-> <<>>, y |-> <<>>, traj |-> <<>>]
    ELSE
      LET n    == Len(state)
          s0   == IF t \in resets THEN Zeros(n) ELSE state
          dA   == AsSeq([i \in 1..n |-> Exp(Mul(dts[t], A[i]))])
          st   == AsSeq([i \in 1..n |-> Mul(s0[i], dA[i]) + Mul(xs[t], Mul(dts[t], Bs[t][i]))])
          yt   == SumSeq(AsSeq([i \in 1..n |-> Mul(st[i], Cs[t][i])])) + Mul(D, xs[t])
          rest == ScanFrom(t + 1, st, xs, dts, A, Bs, Cs, D, resets)
      IN  [ dA   |-> <<dA>> \o rest.dA,
            y    |-> <<yt>> \o rest.y,
            traj |-> <<st>> \o rest.traj ]

\* the first position of every segment but the first, from cu_seqlens
\* (cumulative segment ends, <<0, a, L>>); <<>> is None
ResetsOf(cu_seqlens) ==
    {cu_seqlens[i] + 1 : i \in 2..(Len(cu_seqlens) - 1)}

\* selective_scan_fn(u, delta, A, B, C, D, z, delta_bias,
\* delta_softplus=True, return_last_state, cu_seqlens): the scan from a
\* zero state.  z = <<>> is z=None (no gate applied).
SelectiveScanFn(xs, dts, A, Bs, Cs, D, z, dt_bias, cu_seqlens) ==
    LET del == AsSeq([t \in 1..Len(xs) |-> Softplus(dts[t] + dt_bias)])
        r   == ScanFrom(1, Zeros(Len(A)), xs, del, A, Bs, Cs, D, ResetsOf(cu_seqlens))
    IN  [ dt   |-> del,
          dA   |-> r.dA,
          y    |-> IF z = <<>> THEN r.y
                   ELSE AsSeq([t \in 1..Len(xs) |-> Mul(r.y[t], Silu(z[t]))]),
          yrec |-> r.y,
          traj |-> r.traj,
          last_state |-> r.traj[Len(xs)] ]

\* triton_selective_scan_sequential(x, dt, A, B, C, D, initial_state): the
\* sequential scan from initial_state, dt already realized, no gate.
TritonSelectiveScanSequential(xs, dts, A, Bs, Cs, D, initial_state) ==
    LET r == ScanFrom(1, initial_state, xs, dts, A, Bs, Cs, D, {})
    IN  [ dt |-> dts, dA |-> r.dA, y |-> r.y, yrec |-> r.y,
          traj |-> r.traj, last_state |-> r.traj[Len(xs)] ]

\* FusedRMSNorm(dim, eps) with its weight of ones: v / sqrt(mean(v^2) + eps)
RmsNorm(v) ==
    LET n   == Len(v)
        ms  == SumSeq(AsSeq([i \in 1..n |-> v[i] * v[i]])) \div n
        top == SumSeq(AsSeq([i \in 1..n |-> Abs(v[i])]))
        rms == CHOOSE r \in 0..top : r * r <= ms /\ (r + 1) * (r + 1) > ms
    IN  AsSeq([i \in 1..n |-> (v[i] * Unit) \div Max(rms, 1)])

\* ------------------------------------------------------------ the layer
\* None for an optional tensor argument, and a tensor given
None == [v |-> <<>>, some |-> FALSE]

Some(v) == [v |-> v, some |-> TRUE]

\* the mask argument of forward: None, a per-position validity mask of
\* 0/1, or (with use_cu_seqlen) the cumulative segment ends cu_seqlens
NoMask == [v |-> <<>>, kind |-> "none"]

\* x * mask.unsqueeze(1)
ApplyMask(x, mask) == AsSeq([t \in 1..Len(x) |-> x[t] * mask.v[t]])

\* x[..., -n:]
LastN(x, n) == SubSeq(x, Len(x) - n + 1, Len(x))

\* self.x_proj and torch.split: the raw dt, B and C of one position
XProj(par, x) ==
    [ dt |-> Mul(par.xp_dt, x),
      B  |-> AsSeq([i \in 1..Len(par.xp_B) |-> Mul(par.xp_B[i], x)]),
      C  |-> AsSeq([i \in 1..Len(par.xp_C) |-> Mul(par.xp_C[i], x)]) ]

\* what a call returns and leaves behind: err (it raised), pair (it
\* returned the 2-tuple (out, gmu_mems)), out, aux (the second component),
\* the states after the call, and what the recurrence went through: its
\* state after every position (traj), its output before the gate (yrec),
\* the realized steps (dt) and decay factors (dA).
Result(err, pair, out, aux, conv_state, ssm_state, r) ==
    [ conv_state |-> conv_state, ssm_state |-> ssm_state, dt |-> r.dt, dA |-> r.dA,
      yrec |-> r.yrec, out |-> out,
      traj |-> r.traj, err |-> err, pair |-> pair, aux |-> aux ]

NoScan == [dt |-> <<>>, dA |-> <<>>, yrec |-> <<>>, traj |-> <<>>]

\* Mamba.step, from "SSM step" to the return: r is the recurrence's result
StepOut(par, cv, r) ==
    Result(FALSE, FALSE, <<Mul(par.out_w, r.y)>>, None, cv.conv_state, r.ssm_state,
           [dt |-> <<r.dt>>, dA |-> <<r.dA>>, yrec |-> <<r.yrec>>,
            traj |-> <<r.ssm_state>>])

\* Mamba.step, from "x_db = self.x_proj(x)" on: cv is the convolution's
\* result, p the raw dt, B and C
StepSsm(kern, par, ssm_state, z, cv, p) ==
    StepOut(par, cv,
        IF ~kern.ssu
        THEN SsmStepRef(ssm_state, cv.x, Mul(par.dtp_w, p.dt), AOf(par.A_log),
                        p.B, p.C, par.D, z, par.dt_bias)
        ELSE SelectiveStateUpdate(ssm_state, cv.x, Mul(par.dtp_w, p.dt),
                                  AOf(par.A_log), p.B, p.C, par.D, z, par.dt_bias))

\* Mamba.step, "Conv step": the elementwise update when the import of
\* causal_conv1d_update failed, the kernel otherwise
ConvStep(kern, conv_state, x, w, b) ==
    IF ~kern.conv THEN ConvUpdateRef(conv_state, x, w, b)
    ELSE CausalConv1dUpdate(conv_state, x, w, b)

\* Mamba.step after the convolution
StepConv(kern, par, ssm_state, z, cv) ==
    StepSsm(kern, par, ssm_state, z, cv, XProj(par, cv.x))

\* step with the shape check made after the buffer has been rolled
StepLateCheck(kern, par, conv_state, ssm_state, hs) ==
    IF Len(hs) # 1
    THEN Result(TRUE, FALSE, <<>>, None, Roll(conv_state), ssm_state, NoScan)
    ELSE StepConv(kern, par, ssm_state, Mul(par.in_z, hs[1]),
            ConvStep(kern, conv_state, Mul(par.in_x, hs[1]), par.conv_w, par.conv_b))

\* Mamba.step(hidden_states, conv_state, ssm_state): one token against the
\* carried states, which are updated in place.
Step(kern, par, conv_state, ssm_state, hs) ==
    IF Len(hs) # 1
    THEN Result(TRUE, FALSE, <<>>, None, conv_state, ssm_state, NoScan)
    ELSE StepConv(kern, par, ssm_state, Mul(par.in_z, hs[1]),
            ConvStep(kern, conv_state, Mul(par.in_x, hs[1]), par.conv_w, par.conv_b))

\* forward: dt = self.dt_proj.weight @ dt.t(), B and C of every position,
\* each normalized first when jamba_norm is set
GenParams(cfg, par, raw) ==
    [ dt |-> AsSeq([t \in 1..Len(raw) |->
                Mul(par.dtp_w, IF cfg.jamba_norm THEN RmsNorm(<<raw[t].dt>>)[1]
                               ELSE raw[t].dt)]),
      B  |-> AsSeq([t \in 1..Len(raw) |->
                IF cfg.jamba_norm THEN RmsNorm(raw[t].B) ELSE raw[t].B]),
      C  |-> AsSeq([t \in 1..Len(raw) |->
                IF cfg.jamba_norm THEN RmsNorm(raw[t].C) ELSE raw[t].C]) ]

\* mamba_inner_fn's result as forward returns it
FastOut(par, st, a, r) ==
    Result(FALSE, TRUE, AsSeq([t \in 1..Len(r.y) |-> Mul(par.out_w, r.y[t])]),
           a.gmu_mems, st.conv_state, st.ssm_state, r)

\* mamba_inner_fn after its convolution: parameter generation and the scan
\* from a zero state, gated by z
MambaInnerScan(par, z, cu_seqlens, x, g) ==
    SelectiveScanFn(x, g.dt, AOf(par.A_log), g.B, g.C, par.D, z, par.dt_bias,
                    cu_seqlens)

MambaInnerConv(par, z, mask, cu_seqlens, xc) ==
    MambaInnerScan(par, z, cu_seqlens,
        IF mask.kind = "valid" THEN ApplyMask(xc, mask) ELSE xc,
        GenParams([jamba_norm |-> FALSE], par,
            AsSeq([t \in 1..Len(xc) |->
                XProj(par, IF mask.kind = "valid" THEN xc[t] * mask.v[t] ELSE xc[t])])))

\* mamba_inner_fn(xz, conv1d.weight, ..., delta_bias, mask | cu_seqlens +
\* seq_idx, delta_softplus=True): the fused convolution, parameter
\* generation, scan, gate; forward applies out_proj's weight to its result.
MambaInnerFn(par, x0, z, mask, cu_seqlens, seq_idx) ==
    MambaInnerConv(par, z, mask, cu_seqlens,
        CausalConv1dFn(IF mask.kind = "valid" THEN ApplyMask(x0, mask) ELSE x0,
                       par.conv_w, par.conv_b, seq_idx))

\* forward, "Compute short convolution" to the conv_state update: ox is the
\* (masked) input branch.  With causal_conv1d_fn the carried conv_state is
\* put in front of the input and the last seqlen outputs are kept; without
\* it the convolution starts from zero padding.  causal_conv1d_fn rejects a
\* seq_idx that is not one entry per position.
ForwardConv(cfg, kern, par, st, a, ox) ==
    LET xin  == IF st.has THEN st.conv_state \o ox ELSE ox
        sidx == IF cfg.use_cu_seqlen THEN a.seq_idx ELSE <<>>
        keep == IF st.has THEN PadLeft(ox, Len(par.conv_w) - Len(ox))
                ELSE st.conv_state
    IN  IF ~kern.conv
        THEN [conv_state |-> keep, x |-> ConvRef(ox, par.conv_w, par.conv_b),
              err |-> FALSE]
        ELSE IF sidx # <<>> /\ Len(sidx) # Len(xin)
        THEN [conv_state |-> st.conv_state, x |-> <<>>, err |-> TRUE]
        ELSE [conv_state |-> keep,
              x |-> LastN(CausalConv1dFn(xin, par.conv_w, par.conv_b, sidx), Len(ox)),
              err |-> FALSE]

\* forward, from the scan's result r to the return.  With gmu_save z is
\* transposed to (b, l, d) and, before the sequential scan, back to
\* (b, d, l): swiglu(z, o) then meets o of (b, l, d) and raises for
\* d_inner # seqlen, after both states have been written.
ForwardOut(cfg, par, st, a, z, conv2, r) ==
    LET init == a.support_init_states /\ st.has
        ssm2 == IF st.has THEN r.last_state ELSE st.ssm_state
    IN  IF init /\ cfg.gmu_save
        THEN Result(TRUE, FALSE, <<>>, None, conv2, ssm2, r)
        ELSE Result(FALSE, TRUE,
                AsSeq([t \in 1..Len(z) |->
                    Mul(par.out_w, IF init \/ cfg.gmu_save THEN Swiglu(z[t], r.y[t])
                                   ELSE r.y[t])]),
                IF cfg.gmu_save THEN Some(r.y) ELSE a.gmu_mems,
                conv2, ssm2, r)

\* forward, the scan: the sequential scan from the carried ssm_state when
\* support_init_states is set and a cache is attached, selective_scan_fn
\* from a zero state otherwise (gated by z unless gmu_save; mask passed as
\* cu_seqlens with use_cu_seqlen)
ForwardScan(cfg, par, st, a, z, conv2, x, g) ==
    ForwardOut(cfg, par, st, a, z, conv2,
        IF a.support_init_states /\ st.has
        THEN TritonSelectiveScanSequential(
                x, AsSeq([t \in 1..Len(x) |-> Softplus(g.dt[t] + par.dt_bias)]),
                AOf(par.A_log), g.B, g.C, par.D, st.ssm_state)
        ELSE SelectiveScanFn(
                x, g.dt, AOf(par.A_log), g.B, g.C, par.D,
                IF cfg.gmu_save THEN <<>> ELSE z, par.dt_bias,
                IF cfg.use_cu_seqlen THEN a.mask.v ELSE <<>>))

\* forward, from the second mask application to the parameter generation
ForwardParams(cfg, par, st, a, z, conv2, x) ==
    ForwardScan(cfg, par, st, a, z, conv2, x,
        GenParams(cfg, par, AsSeq([t \in 1..Len(x) |-> XProj(par, x[t])])))

\* forward after the convolution cv
ForwardMask(cfg, par, st, a, z, cv) ==
    IF cv.err
    THEN Result(TRUE, FALSE, <<>>, None, st.conv_state, st.ssm_state, NoScan)
    ELSE ForwardParams(cfg, par, st, a, z, cv.conv_state,
            IF a.mask.kind = "valid" /\ ~cfg.use_cu_seqlen
            THEN ApplyMask(cv.x, a.mask) ELSE cv.x)

\* Mamba.forward from "x, z = xz.chunk(2, dim=1)" to "out = self.out_proj(y)":
\* the path taken when the fused mamba_inner_fn is not.  st.has says
\* whether conv_state and ssm_state are tensors (a cache is attached).
ForwardSlow(cfg, kern, par, st, a, x0, z) ==
    ForwardMask(cfg, par, st, a, z,
        ForwardConv(cfg, kern, par, st, a,
            IF a.mask.kind = "valid" /\ ~cfg.use_cu_seqlen
            THEN ApplyMask(x0, a.mask) ELSE x0))

\* forward's in_proj: one branch of xz over time
InProj(w, hs) == AsSeq([t \in 1..Len(hs) |-> Mul(w, hs[t])])

\* Mamba.forward(hidden_states, seq_idx, inference_params, mask,
\* support_init_states, gmu_mems), given the states obtained from the
\* cache (st.has is "inference_params is not None").
Forward(cfg, kern, par, st, a) ==
    IF st.has /\ Len(a.hs) = 1
    THEN Step(kern, par, st.conv_state, st.ssm_state, a.hs)
    ELSE IF ~cfg.jamba_norm /\ ~cfg.gmu_save /\ cfg.use_fast_path /\ ~st.has
    THEN FastOut(par, st, a,
            IF cfg.use_cu_seqlen
            THEN MambaInnerFn(par, InProj(par.in_x, a.hs), InProj(par.in_z, a.hs),
                              NoMask, a.mask.v, a.seq_idx)
            ELSE MambaInnerFn(par, InProj(par.in_x, a.hs), InProj(par.in_z, a.hs),
                              a.mask, <<>>, <<>>))
    ELSE ForwardSlow(cfg, kern, par, st, a, InProj(par.in_x, a.hs),
                     InProj(par.in_z, a.hs))

\* ------------------------------------------------------------ the cache
\* a layer's entry of inference_params before its first use
NoEntry == [conv_state |-> <<>>, ssm_state |-> <<>>, alloc |-> FALSE]

\* an allocated entry of zeros
ZeroEntry(K, n) == [conv_state |-> Zeros(K), ssm_state |-> Zeros(n), alloc |-> TRUE]

\* self._get_states_from_cache(inference_params, batch): the layer's
\* entry, allocated with zeros on first use and kept afterwards.
GetStatesFromCache(c, l, K, n) ==
    IF c[l].alloc THEN c
    ELSE [c EXCEPT ![l] = ZeroEntry(K, n)]

\* the write going to tensors that every layer's entry shares
WriteBackAliased(c, l, r) ==
    [m \in DOMAIN c |->
        IF c[m].alloc \/ m = l
        THEN [conv_state |-> r.conv_state, ssm_state |-> r.ssm_state, alloc |-> TRUE]
        ELSE c[m]]

\* the states of result r installed as layer l's entry: conv_state.copy_,
\* ssm_state.copy_ and the in-place kernels write into the tensors the
\* cache holds for this layer
WriteBack(c, l, r) ==
    [c EXCEPT ![l] = [conv_state |-> r.conv_state, ssm_state |-> r.ssm_state,
                      alloc |-> TRUE]]

\* ---------------------------------------------------------------- state
VARIABLES
    cfg,     \* the constructor's flags of the layers
    kern,    \* which optional kernels the imports found
    par,     \* the parameter tensors
    cache,   \* inference_params: per layer, its conv_state and ssm_state
    last,    \* the last call: its arguments, the states it was given, its result
    ncalls   \* calls made so far

vars == <<cfg, kern, par, cache, last, ncalls>>

\* values of one position of hidden_states
HVals == {-Unit, 2 * Unit}

\* hidden_states of 1..n positions
Seqs(n) == UNION {[1..k -> HVals] : k \in 1..n}

Configs ==
    [jamba_norm : BOOLEAN, use_cu_seqlen : BOOLEAN, gmu_save : BOOLEAN,
     use_fast_path : BOOLEAN]

Kernels == [ssu : BOOLEAN, conv : BOOLEAN]

NoResult == Result(FALSE, FALSE, <<>>, None, <<>>, <<>>, NoScan)

Args(h, si, m, sis, gm) ==
    [seq_idx |-> si, mask |-> m, hs |-> h,
     gmu_mems |-> gm, support_init_states |-> sis]

Call(op, l, cached, a, pre, r) ==
    [op |-> op, cached |-> cached, pre |-> pre, layer |-> l, args |-> a, res |-> r]

NoCall == Call("none", 0, FALSE, Args(<<>>, <<>>, NoMask, FALSE, None), NoEntry, NoResult)

\* the try/except imports and Mamba.__init__ of every layer; an empty
\* inference_params
Init ==
    /\ cfg \in Configs
    /\ kern \in Kernels
    /\ par = InitParams(DConv, DState)
    /\ cache = [l \in Layers |-> NoEntry]
    /\ last = NoCall
    /\ ncalls = 0

\* the states forward or step works on
StatesOf(e) == [conv_state |-> e.conv_state, ssm_state |-> e.ssm_state, has |-> TRUE]

NoStates == [conv_state |-> <<>>, ssm_state |-> <<>>, has |-> FALSE]

\* layer l's forward(hidden_states, ..., inference_params=cache): the
\* states come from the cache and are updated in place
ForwardCached(l, a) ==
    /\ ncalls < MaxCalls
    /\ LET c1 == GetStatesFromCache(cache, l, Len(par.conv_w), Len(par.A_log))
       IN  /\ last' = Call("forward", l, TRUE, a, c1[l],
                           Forward(cfg, kern, par, StatesOf(c1[l]), a))
           /\ cache' = WriteBack(c1, l, last'.res)
    /\ ncalls' = ncalls + 1
    /\ UNCHANGED <<cfg, kern, par>>

\* a layer's forward(hidden_states, ...) with inference_params=None
ForwardPlain(a) ==
    /\ ncalls < MaxCalls
    /\ last' = Call("forward", 0, FALSE, a, NoEntry,
                    Forward(cfg, kern, par, NoStates, a))
    /\ ncalls' = ncalls + 1
    /\ UNCHANGED <<cfg, kern, par, cache>>

\* layer l's step(hidden_states, conv_state, ssm_state) on the tensors the
\* cache holds for it
StepCall(l, hs) ==
    /\ ncalls < MaxCalls
    /\ cache[l].alloc
    /\ last' = Call("step", l, TRUE, Args(hs, <<>>, NoMask, FALSE, None), cache[l],
                    Step(kern, par, cache[l].conv_state, cache[l].ssm_state, hs))
    /\ cache' = WriteBack(cache, l, last'.res)
    /\ ncalls' = ncalls + 1
    /\ UNCHANGED <<cfg, kern, par>>

Next ==
    \/ \E l \in Layers, hs \in Seqs(MaxLen), sis \in BOOLEAN :
          ForwardCached(l, Args(hs, <<>>, NoMask, sis, None))
    \/ \E hs \in Seqs(MaxLen) : ForwardPlain(Args(hs, <<>>, NoMask, FALSE, None))
    \/ \E l \in Layers, hs \in Seqs(MaxLen) : StepCall(l, hs)

Spec == Init /\ [][Next]_vars

\* ------------------------------------------------- claims on the layer
\* hs fed one token at a time through step, from the given states
RECURSIVE StepSeq(_, _, _, _, _)
StepSeq(k, p, conv_state, ssm_state, hs) ==
    IF hs = <<>>
    THEN [conv_state |-> conv_state, ssm_state |-> ssm_state, out |-> <<>>]
    ELSE LET r    == Step(k, p, conv_state, ssm_state, <<Head(hs)>>)
             rest == StepSeq(k, p, r.conv_state, r.ssm_state, Tail(hs))
         IN  [conv_state |-> rest.conv_state, ssm_state |-> rest.ssm_state,
              out |-> r.out \o rest.out]

\* the zeroed entry of this layer
Fresh == ZeroEntry(Len(par.conv_w), Len(par.A_log))

\* C1 (equivalence law): a forward over a sequence with a freshly zeroed
\* cache attached returns, at every position, what successive step calls
\* on the same tokens return from another freshly zeroed cache.
C1_ForwardEqualsSteps ==
    (last.op = "forward" /\ last.cached /\ last.pre = Fresh) =>
        /\ ~last.res.err
        /\ last.res.out =
              StepSeq(kern, par, Fresh.conv_state, Fresh.ssm_state, last.args.hs).out

\* C2 (prefill populates the cache): a forward over more than one token
\* with a cache attached leaves conv_state and ssm_state as feeding the
\* same tokens through step one at a time from the same states would,
\* whatever the cache held before.
C2_PrefillLeavesStepState ==
    (last.op = "forward" /\ last.cached /\ Len(last.args.hs) > 1) =>
        LET r == StepSeq(kern, par, last.pre.conv_state, last.pre.ssm_state,
                         last.args.hs)
        IN  /\ cache[last.layer].conv_state = r.conv_state
            /\ cache[last.layer].ssm_state = r.ssm_state

\* C3 (failed step writes nothing): step given a time dimension other than
\* 1 raises, and conv_state and ssm_state are as they were before the call.
C3_FailedStepWritesNothing ==
    (last.op = "step" /\ Len(last.args.hs) # 1) =>
        /\ last.res.err
        /\ cache[last.layer] = last.pre

\* a step with two tokens was refused on a cache an earlier call had filled
C3_Witness ==
    /\ last.op = "step"
    /\ Len(last.args.hs) = 2
    /\ last.res.err
    /\ last.pre.conv_state # Fresh.conv_state
    /\ last.pre.ssm_state # Fresh.ssm_state

\* C7 (backend selection is unobservable): whatever kernels the imports
\* found, a call with the same arguments on the same states returns the
\* same output and leaves the same states.
C7_BackendUnobservable ==
    last.op \in {"forward", "step"} =>
        \A k2 \in Kernels :
            LET r2 == IF last.op = "step"
                      THEN Step(k2, par, last.pre.conv_state, last.pre.ssm_state,
                                last.args.hs)
                      ELSE Forward(cfg, k2, par,
                                   IF last.cached THEN StatesOf(last.pre) ELSE NoStates,
                                   last.args)
            IN  /\ r2.err = last.res.err
                /\ r2.out = last.res.out
                /\ r2.aux = last.res.aux
                /\ r2.conv_state = last.res.conv_state
                /\ r2.ssm_state = last.res.ssm_state

\* what one call may do to the cache
C8_Call ==
    ncalls' = ncalls + 1 =>
        IF last'.cached
        THEN LET l   == last'.layer
                 got == IF cache[l].alloc THEN cache[l] ELSE Fresh
             IN  /\ last'.pre = got
                 /\ last'.res =
                       IF last'.op = "step"
                       THEN Step(kern, par, got.conv_state, got.ssm_state,
                                 last'.args.hs)
                       ELSE Forward(cfg, kern, par, StatesOf(got), last'.args)
                 /\ cache'[l].alloc
                 /\ cache'[l].conv_state = last'.res.conv_state
                 /\ cache'[l].ssm_state = last'.res.ssm_state
                 /\ \A m \in Layers \ {l} : cache'[m] = cache[m]
        ELSE cache' = cache

C10_AuxContract ==
    last.op = "forward" =>
        IF cfg.gmu_save
        THEN /\ ~last.res.err
             /\ last.res.pair
             /\ last.res.aux = Some(last.res.yrec)
        ELSE ~last.res.aux.some

\* ------------------------------------------- the convolution, step by step
\* inputs fed to one convolution buffer
MaxFeed == 5

\* values of the convolved branch, of a filter tap and of the bias
XVals == {-Unit, 1, 2 * Unit}

WVals == {-1, 3}

BVals == {0, 1}

\* a layer of any convolution width up to MaxK with any filter, and its
\* zeroed buffer
InitConv ==
    /\ cfg = [jamba_norm |-> FALSE, use_cu_seqlen |-> FALSE, gmu_save |-> FALSE,
              use_fast_path |-> TRUE]
    /\ kern \in {k \in Kernels : ~k.ssu}
    /\ \E K \in 1..MaxK : \E w \in [1..K -> WVals], b \in BVals :
          /\ par = [InitParams(K, DState) EXCEPT !.conv_w = w, !.conv_b = b]
          /\ cache = [l \in Layers |-> IF l = 1 THEN ZeroEntry(K, DState) ELSE NoEntry]
    /\ last = NoCall
    /\ ncalls = 0

\* the "Conv step" of Mamba.step on layer 1's buffer, fed x; last keeps
\* the inputs fed so far and the outputs they gave
ConvFeed(x) ==
    /\ ncalls < MaxFeed
    /\ LET cv == ConvStep(kern, cache[1].conv_state, x, par.conv_w, par.conv_b)
       IN  /\ cache' = [cache EXCEPT ![1].conv_state = cv.conv_state]
           /\ last' = Call("conv", 1, TRUE,
                           Args(Append(last.args.hs, x), <<>>, NoMask, FALSE, None),
                           cache[1],
                           [last.res EXCEPT !.out = Append(last.res.out, cv.x)])
    /\ ncalls' = ncalls + 1
    /\ UNCHANGED <<cfg, kern, par>>

NextConv == \E x \in XVals : ConvFeed(x)

SpecConv == InitConv /\ [][NextConv]_vars

\* C5 (ring-buffer correctness): feeding inputs one at a time through the
\* step's convolution from a zeroed buffer gives, at every step t, the
\* value at position t of the stateless convolution of forward (nn.Conv1d
\* padded by d_conv - 1, truncated to the length, activated) over the same
\* inputs, and the buffer holds the last d_conv inputs, oldest first, zero
\* where fewer have arrived.
C5_RingBuffer ==
    last.op = "conv" =>
        /\ last.res.out = ConvRef(last.args.hs, par.conv_w, par.conv_b)
        /\ cache[1].conv_state =
              LastN(Zeros(Len(par.conv_w)) \o last.args.hs, Len(par.conv_w))

\* more inputs than the width 4 of the buffer, all different from their
\* neighbours, have been fed
C5_Witness ==
    /\ last.op = "conv"
    /\ Len(par.conv_w) = 4
    /\ Len(last.args.hs) = 5
    /\ \A t \in 1..4 : last.args.hs[t] # last.args.hs[t + 1]
    /\ par.conv_w[1] # par.conv_w[4]

\* --------------------------------------------- stability of the recurrence
\* widest state explored by the stability specification
MaxN == 3

\* values of the decay seed A_log, trained or initialised
ALogVals == {-Unit, 0, 2 * Unit}

\* values of dt_proj.bias
DtBiasVals == {-(3 * Unit), -1, Unit}

\* layers of any state width up to MaxN whose A_log is the constructor's
\* or any other value, with any dt_proj.bias
InitStab ==
    /\ cfg \in {c \in Configs : ~c.gmu_save /\ c.use_fast_path /\ ~c.use_cu_seqlen}
    /\ kern \in {k \in Kernels : k.conv}
    /\ \E n \in 1..MaxN, b \in DtBiasVals :
          \E al \in {ALogInit(n)} \cup {AsSeq([i \in 1..n |-> v]) : v \in ALogVals} :
              par = [InitParams(DConv, n) EXCEPT !.dt_bias = b, !.A_log = al]
    /\ cache = [l \in Layers |-> NoEntry]
    /\ last = NoCall
    /\ ncalls = 0

NextStab ==
    \/ \E hs \in Seqs(DConv), sis \in BOOLEAN :
          ForwardCached(1, Args(hs, <<>>, NoMask, sis, None))
    \/ \E hs \in Seqs(DConv) : ForwardPlain(Args(hs, <<>>, NoMask, FALSE, None))
    \/ \E hs \in Seqs(1) : StepCall(1, hs)

SpecStab == InitStab /\ [][NextStab]_vars

\* C6 (stability invariant): the decay parameter A = -exp(A_log) is
\* strictly negative for every A_log, and at every recurrence update of
\* forward and of step the realized step softplus(dt + bias) is strictly
\* positive and every decay factor exp(step * A) is above 0 and at most 1.
C6_Stability ==
    /\ \A i \in 1..Len(par.A_log) : AOf(par.A_log)[i] < 0
    /\ \A t \in 1..Len(last.res.dt) :
          /\ last.res.dt[t] > 0
          /\ \A i \in 1..Len(par.A_log) :
                /\ last.res.dA[t][i] > 0
                /\ last.res.dA[t][i] <= Unit

\* a step after a forward, on the constructor's A_log of three states, gave
\* decay factors that differ between the states and are below 1
C6_Witness ==
    /\ last.op = "step"
    /\ ~last.res.err
    /\ Len(par.A_log) = 3
    /\ par.A_log = ALogInit(3)
    /\ last.res.dA[1][3] < last.res.dA[1][1]
    /\ last.res.dA[1][1] < Unit

\* ------------------------------------------------- the recurrence update
\* realized steps the update is given
DtVals == {0, Unit}

\* a layer with a zero recurrence state
InitSkip ==
    /\ cfg = [jamba_norm |-> FALSE, use_cu_seqlen |-> FALSE, gmu_save |-> FALSE,
              use_fast_path |-> TRUE]
    /\ kern \in {k \in Kernels : ~k.ssu}
    /\ par = InitParams(DConv, DState)
    /\ cache = [l \in Layers |-> IF l = 1 THEN ZeroEntry(DConv, DState) ELSE NoEntry]
    /\ last = NoCall
    /\ ncalls = 0

\* the call so far, extended by the update r of input x
SkipLog(x, r) ==
    Call("ssm", 1, TRUE, Args(Append(last.args.hs, x), <<>>, NoMask, FALSE, None),
         cache[1],
         [last.res EXCEPT !.yrec = Append(@, r.y), !.dt = Append(@, r.dt),
                          !.dA = Append(@, r.dA), !.traj = Append(@, r.ssm_state),
                          !.ssm_state = r.ssm_state])

\* the "SSM step" of Mamba.step on layer 1's ssm_state with the realized
\* step dt: B and C are x_proj's of the input x
SkipFeed(x, dt) ==
    /\ ncalls < MaxFeed
    /\ last' = SkipLog(x, SsmUpdate(cache[1].ssm_state, x, dt, AOf(par.A_log),
                                    XProj(par, x).B, XProj(par, x).C, par.D))
    /\ cache' = [cache EXCEPT ![1].ssm_state = last'.res.ssm_state]
    /\ ncalls' = ncalls + 1
    /\ UNCHANGED <<cfg, kern, par>>

NextSkip == \E x \in XVals, dt \in DtVals : SkipFeed(x, dt)

SpecSkip == InitSkip /\ [][NextSkip]_vars

\* C9 (skip-only degenerate case): when the realized step is 0 at every
\* time step so far, from a zero recurrence state the recurrence output at
\* every step is D * x and every step leaves the state as it was (zero).
C9_SkipOnly ==
    (last.op = "ssm" /\ \A t \in 1..Len(last.res.dt) : last.res.dt[t] = 0) =>
        \A t \in 1..Len(last.args.hs) :
            /\ last.res.yrec[t] = Mul(par.D, last.args.hs[t])
            /\ last.res.traj[t] = Zeros(Len(par.A_log))
            /\ cache[1].ssm_state = Zeros(Len(par.A_log))

\* three updates with a zero step on inputs that are not zero, with a skip
\* scale that is not zero
C9_Witness ==
    /\ last.op = "ssm"
    /\ Len(last.args.hs) = 3
    /\ \A t \in 1..3 : last.res.dt[t] = 0 /\ last.args.hs[t] # 0
    /\ last.args.hs[1] # last.args.hs[2]
    /\ par.D # 0
    /\ last.res.yrec[1] # 0

\* ------------------------------------------------------ packed sequences
\* longest packed row
MaxPack == 4

\* seq_idx of a row of L positions whose first a are segment 0
SegIds(a, L) == AsSeq([t \in 1..L |-> IF t <= a THEN 0 ELSE 1])

\* the arguments of a forward over a row packing two sequences with the
\* boundary after position a: seq_idx names the segments, and with
\* use_cu_seqlen mask carries the cumulative lengths
PackedArgs(hs, a, sis) ==
    Args(hs, SegIds(a, Len(hs)),
         IF cfg.use_cu_seqlen THEN [v |-> <<0, a, Len(hs)>>, kind |-> "cu"] ELSE NoMask,
         sis, None)

PackedRows == UNION {[1..L -> HVals] : L \in 2..MaxPack}

\* the only call of a behaviour: forward over a packed row with the cache
PackedCached(hs, a, sis) ==
    /\ ncalls = 0
    /\ ForwardCached(1, PackedArgs(hs, a, sis))

\* the only call of a behaviour: forward over a packed row without a cache
PackedPlain(hs, a) ==
    /\ ncalls = 0
    /\ ForwardPlain(PackedArgs(hs, a, FALSE))

NextPacked ==
    \/ \E hs \in PackedRows, sis \in BOOLEAN : \E a \in 1..(Len(hs) - 1) :
          PackedCached(hs, a, sis)
    \/ \E hs \in PackedRows : \E a \in 1..(Len(hs) - 1) : PackedPlain(hs, a)

SpecPacked == Init /\ [][NextPacked]_vars

\* the boundary of the packed row of the last call
Boundary == Cardinality({t \in 1..Len(last.args.seq_idx) : last.args.seq_idx[t] = 0})

\* the second sequence of the packed row processed alone from a zero state
Alone ==
    Forward(cfg, kern, par, NoStates,
            Args(SubSeq(last.args.hs, Boundary + 1, Len(last.args.hs)), <<>>, NoMask,
                 FALSE, None))

\* C4 (masking isolation): in every configuration, a forward over a row
\* packing two sequences with the boundary after position a succeeds and
\* the recurrence state at the first position of the second segment is the
\* state the second sequence alone reaches at its first position from a
\* zero state.
C4_MaskingIsolation ==
    (last.op = "forward" /\ last.args.seq_idx # <<>>) =>
        /\ ~last.res.err
        /\ last.res.traj[Boundary + 1] = Alone.traj[1]

\* ------------------------------------------- normalized-parameter mode
\* the convolved branch of the last call, one value per position: the conv
\* step of one token on the carried buffer, or forward's convolution
ConvolvedOfLast ==
    IF last.op = "step" \/ (last.cached /\ Len(last.args.hs) = 1)
    THEN <<ConvStep(kern, last.pre.conv_state, Mul(par.in_x, last.args.hs[1]),
                    par.conv_w, par.conv_b).x>>
    ELSE ForwardConv(cfg, kern, par,
                     IF last.cached THEN StatesOf(last.pre) ELSE NoStates,
                     last.args, InProj(par.in_x, last.args.hs)).x

\* the state the recurrence of the last call starts from
StartOfLast ==
    IF last.op = "step" \/ (last.cached /\ Len(last.args.hs) = 1)
           \/ (last.cached /\ last.args.support_init_states)
    THEN last.pre.ssm_state
    ELSE Zeros(Len(par.A_log))

\* the recurrence over x from state init with dt, B and C each normalized
\* before dt_proj, the softplus and the discretization
NormalizedScan(x, init, g) ==
    ScanFrom(1, init, x,
             AsSeq([t \in 1..Len(x) |-> Softplus(g.dt[t] + par.dt_bias)]),
             AOf(par.A_log), g.B, g.C, par.D, {})

\* the last call's recurrence went through the outputs and states of r
SameRecurrence(r) ==
    /\ last.res.dA = r.dA
    /\ last.res.yrec = r.y
    /\ last.res.traj = r.traj

\* C11 (normalized-parameter mode): with jamba_norm, every call that
\* generates recurrence parameters, forward and step alike, runs its
\* recurrence on dt, B and C that went through their normalization: its
\* decay factors, outputs and states are those of the recurrence on the
\* normalized signals.
C11_NormalizedOnEveryPath ==
    (cfg.jamba_norm /\ last.op \in {"forward", "step"} /\ ~last.res.err) =>
        SameRecurrence(
            NormalizedScan(ConvolvedOfLast, StartOfLast,
                GenParams([jamba_norm |-> TRUE], par,
                    AsSeq([t \in 1..Len(ConvolvedOfLast) |->
                        XProj(par, ConvolvedOfLast[t])]))))

\* ------------------------------------------------------ validity masks
\* longest masked row
MaxMasked == 2

\* the mask argument of forward as a per-position validity mask of 0/1
ValidMask(m) == [v |-> m, kind |-> "valid"]

\* rows of hidden_states with a validity mask of the same length
MaskedRows == UNION {[1..L -> HVals] \X [1..L -> {0, 1}] : L \in 1..MaxMasked}

\* layers that read mask as a validity mask (use_cu_seqlen reads it as
\* cumulative lengths)
InitMask ==
    /\ cfg \in {c \in Configs : ~c.use_cu_seqlen}
    /\ kern \in {k \in Kernels : ~k.ssu}
    /\ par = InitParams(DConv, DState)
    /\ cache = [l \in Layers |-> NoEntry]
    /\ last = NoCall
    /\ ncalls = 0

\* forward(hidden_states, inference_params=cache, mask=mask) on layer 1
MaskedCached(hs, m, sis) ==
    ForwardCached(1, Args(AsSeq(hs), <<>>, ValidMask(AsSeq(m)), sis, None))

\* forward(hidden_states, mask=mask) without a cache
MaskedPlain(hs, m) ==
    ForwardPlain(Args(AsSeq(hs), <<>>, ValidMask(AsSeq(m)), FALSE, None))

NextMask ==
    \/ \E row \in MaskedRows, sis \in BOOLEAN : MaskedCached(row[1], row[2], sis)
    \/ \E row \in MaskedRows : MaskedPlain(row[1], row[2])

SpecMask == InitMask /\ [][NextMask]_vars

\* the rows that differ from hs only at positions the mask marks invalid
SameWhereValid(hs, m) ==
    {h \in [1..Len(hs) -> HVals] : \A t \in 1..Len(hs) : m[t] = 1 => h[t] = hs[t]}

\* results r and q agree on the outputs at the valid positions of m and on
\* the states left behind
AgreeWhereValid(r, q, m) ==
    /\ r.err = q.err
    /\ ~r.err => \A t \in 1..Len(m) : m[t] = 1 => r.out[t] = q.out[t]
    /\ r.conv_state = q.conv_state
    /\ r.ssm_state = q.ssm_state

\* C12 (mask non-interference): a forward call with a validity mask gives
\* the same outputs at the valid positions and leaves the same conv_state
\* and ssm_state as the call with the same mask on the same cache contents
\* whose input differs only at invalid positions, for every sequence
\* length, a single token with a cache attached included.
C12_MaskNonInterference ==
    (last.op = "forward" /\ last.args.mask.kind = "valid") =>
        \A h \in SameWhereValid(last.args.hs, last.args.mask.v) :
            AgreeWhereValid(
                last.res,
                Forward(cfg, kern, par,
                        IF last.cached THEN StatesOf(last.pre) ELSE NoStates,
                        [last.args EXCEPT !.hs = AsSeq(h)]),
                last.args.mask.v)

=============================================================================
